---- MODULE Spec2Model ----
(***************************************************************************)
(* A model of mycota's colour picker (src/mycota/colour_picker.py), of its  *)
(* MediaWiki client (src/mycota/api.py) and of its cache                   *)
(* (src/mycota/data.py).                                                   *)
(*                                                                         *)
(* Numbers.  numpy's float64 values are modelled as exact rationals        *)
(* <<n, d>> in lowest terms with d > 0, extended by the three IEEE         *)
(* specials the code can produce by dividing by zero: <<1, 0>> is +inf,    *)
(* <<-1, 0>> is -inf and <<0, 0>> is nan.  Rounding error of float64 is    *)
(* not modelled; the one irrational operation, the square root of          *)
(* np.linalg.norm, is exact on perfect squares and otherwise rounded down  *)
(* to a multiple of 1/SqrtDen.                                             *)
(*                                                                         *)
(* Indices.  Python's 0-based indices are kept in the program's data       *)
(* (sel, corner_idx); sequences are 1-based, so a row i of an array is     *)
(* element i+1 of the sequence that models it.                             *)
(***************************************************************************)
EXTENDS Integers, Sequences, FiniteSets, TLC

VARIABLES
    pc,                 \* the statement the program is about to run
    lp_reduction,       \* demo's argument
    colour_names,       \* the keys of colour_dict, in insertion order
    colours,            \* the n*3 uint8 array of dict_to_array
    normal, rhs,        \* the plane of fit_plane
    rgb_float,          \* the grid of project_grid
    proj_plane,         \* demo_planar's `projected` (project_irregular)
    reprojected,        \* project_irregular applied to its own output
    corner_idx,         \* get_corner_idx's result
    projection,         \* 4*2 matrix of fit_project_linprog
    projected,          \* n*2 matrix of fit_project_linprog
    antiprojection,     \* 3*3 matrix of get_antiprojection
    missing_corners,    \* plot_delaunay_gouraud's synthetic corners
    projected_with_corners,
    corner_rgb,         \* the synthetic corners' colours, uint8
    colour_strs,        \* demo's colour_strs: the table's colours as strings
    proj_strs,          \* demo_planar's proj_strs
    all_strs,           \* plot_delaunay_gouraud's all_strs
    err,                \* the exception that reached demo's caller, or None
    calls,              \* the stages run so far, in order
    \* api.py
    wiki_pc,            \* the statement get_template or query_mediawiki is at
    n_batches,          \* how many batches itertools.batched cuts the pages into
    batch_i,            \* get_template's i: the batch being queried
    prev_continue,      \* query_mediawiki's prev_continue
    sent,               \* the params of the requests of this call of query_mediawiki
    docs,               \* the documents this call has received, in order
    remaining,          \* the pages of doc that `yield from` has yet to yield
    yielded,            \* the pages this call has yielded, in order
    wiki_err,           \* the exception that left query_mediawiki
    \* data.py
    cache_pc,           \* the statement connect_or_download is at
    cache_file,         \* what is at cache_path
    entry_file,         \* what was at cache_path when this call began
    downloaded,         \* this call has run get_frame
    conn,               \* the connection this call returned
    cache_exc,          \* the exception raised in the try block
    cache_err,          \* the exception that left connect_or_download
    n_calls             \* calls of connect_or_download so far

pickerVars == <<pc, lp_reduction, colour_names, colours, normal, rhs, rgb_float,
                proj_plane, reprojected, corner_idx, projection, projected,
                antiprojection, missing_corners, projected_with_corners, corner_rgb,
                colour_strs, proj_strs, all_strs, err, calls>>

wikiVars == <<wiki_pc, n_batches, batch_i, prev_continue, sent, docs, remaining, yielded,
              wiki_err>>

cacheVars == <<cache_pc, cache_file, entry_file, downloaded, conn, cache_exc, cache_err,
               n_calls>>

ioVars == <<wikiVars, cacheVars>>

vars == <<pickerVars, wikiVars, cacheVars>>

\* Python's None, for a variable that holds a sequence
None == <<>>

\* no exception
NoError == [kind |-> "None", msg |-> <<>>]

\* api.py is not running
WikiIdle ==
    /\ wiki_pc = "idle" /\ n_batches = 0 /\ batch_i = 0 /\ prev_continue = "{}"
    /\ sent = <<>> /\ docs = <<>> /\ remaining = <<>> /\ yielded = <<>>
    /\ wiki_err = "None"

\* data.py is not running
CacheIdle ==
    /\ cache_pc = "idle" /\ cache_file = "absent" /\ entry_file = "absent"
    /\ downloaded = FALSE /\ conn = "None" /\ cache_exc = "None" /\ cache_err = "None"
    /\ n_calls = 0

(***************************************************************************)
(* float64 arithmetic, exact                                               *)
(***************************************************************************)
Abs(x) == IF x < 0 THEN -x ELSE x

Sign(x) == IF x < 0 THEN -1 ELSE IF x > 0 THEN 1 ELSE 0

RECURSIVE Gcd(_, _)
Gcd(a, b) == IF b = 0 THEN a ELSE Gcd(b, a % b)

\* n/d in lowest terms; x/0 is +-inf and 0/0 is nan
Frac(n, d) ==
    IF d = 0 THEN <<Sign(n), 0>>
    ELSE IF n = 0 THEN <<0, 1>>
    ELSE LET g == Gcd(Abs(n), Abs(d))
         IN  <<Sign(d) * (n \div g), Abs(d) \div g>>

I(n) == <<n, 1>>

Zero == <<0, 1>>

One == <<1, 1>>

NaN == <<0, 0>>

PosInf == <<1, 0>>

NegInf == <<-1, 0>>

IsNaN(a) == a = NaN

IsFinite(a) == a[2] # 0

RNeg(a) == <<-a[1], a[2]>>

RAdd(a, b) ==
    IF IsNaN(a) \/ IsNaN(b) THEN NaN
    ELSE IF ~IsFinite(a) /\ ~IsFinite(b) THEN (IF a = b THEN a ELSE NaN)
    ELSE IF ~IsFinite(a) THEN a
    ELSE IF ~IsFinite(b) THEN b
    ELSE IF a[1] = 0 THEN b
    ELSE IF b[1] = 0 THEN a
    ELSE LET g == Gcd(a[2], b[2])
         IN  Frac(a[1] * (b[2] \div g) + b[1] * (a[2] \div g), (a[2] \div g) * b[2])

RSub(a, b) == RAdd(a, RNeg(b))

RMul(a, b) ==
    IF IsNaN(a) \/ IsNaN(b) THEN NaN
    ELSE IF ~IsFinite(a) \/ ~IsFinite(b)
         THEN (IF a[1] = 0 \/ b[1] = 0 THEN NaN ELSE <<Sign(a[1]) * Sign(b[1]), 0>>)
    ELSE IF a[1] = 0 \/ b[1] = 0 THEN Zero
    ELSE LET g1 == Gcd(Abs(a[1]), b[2])
             g2 == Gcd(Abs(b[1]), a[2])
         IN  <<(a[1] \div g1) * (b[1] \div g2), (a[2] \div g2) * (b[2] \div g1)>>

\* numpy float division: x/0 is +-inf with a warning, 0/0 is nan, no exception
RDiv(a, b) ==
    IF IsNaN(a) \/ IsNaN(b) THEN NaN
    ELSE IF ~IsFinite(b) THEN (IF IsFinite(a) THEN Zero ELSE NaN)
    ELSE IF b[1] = 0 THEN <<Sign(a[1]), 0>>
    ELSE RMul(a, <<Sign(b[1]) * b[2], Abs(b[1])>>)

\* a == b as IEEE compares: nan equals nothing
REq(a, b) == ~IsNaN(a) /\ ~IsNaN(b) /\ a = b

\* a <= b as IEEE compares: false when either is nan
RLe(a, b) ==
    IF IsNaN(a) \/ IsNaN(b) THEN FALSE
    ELSE IF a = b THEN TRUE
    ELSE IF ~IsFinite(a) THEN a = NegInf
    ELSE IF ~IsFinite(b) THEN b = PosInf
    ELSE RSub(a, b)[1] <= 0

RLt(a, b) == RLe(a, b) /\ a # b

\* ndarray.clip(min=lo, max=hi): nan stays nan
Clip(a, lo, hi) ==
    IF IsNaN(a) THEN a ELSE IF RLt(a, lo) THEN lo ELSE IF RLt(hi, a) THEN hi ELSE a

RECURSIVE RSum(_)
RSum(s) == IF s = <<>> THEN Zero ELSE RAdd(Head(s), RSum(Tail(s)))

Dot(a, b) == RSum([k \in 1..Len(a) |-> RMul(a[k], b[k])])

\* an array held in memory: every element computed once, when the array is made
Array(s) == s \o <<>>

\* an integer row as floats
ToFloat(row) == Array([k \in 1..Len(row) |-> I(row[k])])

(***************************************************************************)
(* Matrices are sequences of rows.  np.linalg.lstsq is modelled by what it *)
(* returns: the rank of a and the least-squares solution of minimum norm,  *)
(* pinv(a) @ b, computed from a full-rank factorisation a = C F with C a   *)
(* maximal set of independent columns of a.                                *)
(***************************************************************************)
Remove(s, i) == Array([k \in 1..(Len(s) - 1) |-> IF k < i THEN s[k] ELSE s[k + 1]])

RECURSIVE Det(_)
Det(M) ==
    IF Len(M) = 0 THEN One
    ELSE IF Len(M) = 1 THEN M[1][1]
    ELSE RSum([j \in 1..Len(M) |->
            IF M[1][j] = Zero THEN Zero
            ELSE RMul(IF j % 2 = 1 THEN M[1][j] ELSE RNeg(M[1][j]),
                      Det(Array([i \in 1..(Len(M) - 1) |-> Remove(M[i + 1], j)])))])

RECURSIVE SetToSeq(_)
SetToSeq(S) ==
    IF S = {} THEN <<>>
    ELSE LET m == CHOOSE x \in S : \A y \in S : x <= y
         IN  <<m>> \o SetToSeq(S \ {m})

Column(M, j) == Array([i \in 1..Len(M) |-> M[i][j]])

\* the columns J (a sequence of column numbers) of M, as rows
ColumnsT(M, J) == Array([k \in 1..Len(J) |-> Column(M, J[k])])

\* rows(A) @ rows(B).T for matrices given by their rows
MulT(A, B) ==
    Array([i \in 1..Len(A) |-> Array([j \in 1..Len(B) |-> Dot(A[i], B[j])])])

\* the solution x of N x = y for a square non-singular N (Cramer's rule)
Solve(N, y) ==
    LET d == Det(N)
    IN  Array([j \in 1..Len(N) |->
            RDiv(Det(Array([i \in 1..Len(N) |->
                    Array([k \in 1..Len(N) |-> IF k = j THEN y[i] ELSE N[i][k]])])), d)])

IndependentColumns(a, ncols, r) ==
    {J \in SUBSET (1..ncols) :
        /\ Cardinality(J) = r
        /\ LET ct == ColumnsT(a, SetToSeq(J)) IN Det(MulT(ct, ct)) # Zero}

Rank(a, ncols) ==
    CHOOSE r \in 0..ncols :
        /\ IndependentColumns(a, ncols, r) # {}
        /\ \A q \in (r + 1)..ncols : IndependentColumns(a, ncols, q) = {}

\* the solutions of N x = y for each row y of Y, as rows
SolveRows(N, Y) == Array([j \in 1..Len(Y) |-> Solve(N, Y[j])])

\* M.T for a matrix of ncols columns
Transpose(M, ncols) == Array([j \in 1..ncols |-> Column(M, j)])

\* (pinv(a) @ b).T from ft = (pinv(C) a).T and yt = (pinv(C) b).T
min_norm_t(ncols, r, ft, yt) ==
    IF r = ncols THEN yt
    ELSE LET f == Transpose(ft, r)                \* F, r*ncols
         IN  MulT(SolveRows(MulT(f, f), yt), ft)  \* (F.T (F F.T)^-1 y).T

\* pinv(a) @ b, from ct = C.T and g = C.T C
min_norm(a, ncols, b, nrhs, r, ct, g) ==
    Transpose(min_norm_t(ncols, r,
                         SolveRows(g, MulT(Transpose(a, ncols), ct)),
                         SolveRows(g, MulT(Transpose(b, nrhs), ct))),
              ncols)

\* lstsq when the rank r of a is known, from ct = C.T
lstsq_rank(a, ncols, b, nrhs, r, ct) ==
    [x    |-> IF r = 0
              THEN Array([j \in 1..ncols |-> Array([c \in 1..nrhs |-> Zero])])
              ELSE min_norm(a, ncols, b, nrhs, r, ct, MulT(ct, ct)),
     rank |-> r]

\* np.linalg.lstsq(a, b): a is m*ncols, b is m*nrhs; x is ncols*nrhs
lstsq(a, ncols, b, nrhs) ==
    lstsq_rank(a, ncols, b, nrhs, Rank(a, ncols),
               ColumnsT(a, SetToSeq(CHOOSE S \in IndependentColumns(a, ncols, Rank(a, ncols)) :
                                        TRUE)))

RECURSIVE ISqrtIn(_, _, _)
ISqrtIn(n, lo, hi) ==
    IF lo >= hi THEN lo
    ELSE LET mid == (lo + hi + 1) \div 2
         IN  IF mid * mid <= n THEN ISqrtIn(n, mid, hi) ELSE ISqrtIn(n, lo, mid - 1)

\* the largest integer whose square is at most n
ISqrt(n) == ISqrtIn(n, 0, IF n < 46340 THEN n ELSE 46340)

\* resolution of a square root that is not rational
SqrtDen == 100

RSqrt(q) ==
    IF ~IsFinite(q) THEN q
    ELSE IF q[1] < 0 THEN NaN
    ELSE LET sa == ISqrt(q[1])
             sb == ISqrt(q[2])
         IN  IF sa * sa = q[1] /\ sb * sb = q[2] THEN <<sa, sb>>
             ELSE Frac(ISqrt((q[1] \div q[2]) * SqrtDen * SqrtDen
                             + ((q[1] % q[2]) * SqrtDen * SqrtDen) \div q[2]),
                       SqrtDen)

\* np.linalg.norm of a vector
Norm(v) == RSqrt(Dot(v, v))

(***************************************************************************)
(* The plane path: fit_plane, project_grid, project_irregular              *)
(***************************************************************************)
\* what a call hands back: the exception it raised (or None), the value it
\* returned (or None) and its table argument as the call left it
Returned(value, table) == [raised |-> NoError, value |-> value, table |-> table]

Raised(kind, msg, table) ==
    [raised |-> [kind |-> kind, msg |-> msg], value |-> None, table |-> table]

\* offset to add to the input
offset == -128

\* right-hand side of the fitted equation
fit_rhs == 127

\* selected indices of points for fit
sel == <<0, 6, 12, 18, -1>>

\* a Python index into a sequence of length n, resolved; -1 when out of bounds
PyIndex(i, n) ==
    LET j == IF i < 0 THEN i + n ELSE i
    IN  IF 0 <= j /\ j < n THEN j ELSE -1

\* a faulty fit_plane_check: the rank is not looked at
fit_plane_unchecked(table, ls) ==
    Returned([normal |-> [c \in 1..3 |-> RDiv(ls.x[c][1], Norm([d \in 1..3 |-> ls.x[d][1]]))],
              rhs    |-> RDiv(I(fit_rhs), Norm([d \in 1..3 |-> ls.x[d][1]]))], table)

\* fit_plane from line 46 on, given what lstsq returned
fit_plane_check(table, ls) ==
    IF ls.rank # 3
    THEN Raised("ValueError", <<"Deficient rank", ls.rank>>, table)
    ELSE LET fitted == Array([c \in 1..3 |-> ls.x[c][1]])
             rhs1   == RSub(I(fit_rhs), RMul(I(offset), RSum(fitted)))
             mag    == Norm(fitted)
         IN  Returned([normal |-> [c \in 1..3 |-> RDiv(fitted[c], mag)],
                       rhs    |-> RDiv(rhs1, mag)], table)

\* fit_plane from line 42 on, given the selected rows' resolved indices
fit_plane_sel(table, idx) ==
    fit_plane_check(table,
        lstsq(Array([k \in 1..Len(sel) |->
                  Array([c \in 1..3 |-> RAdd(I(table[idx[k] + 1][c]), I(offset))])]),
              3,
              Array([k \in 1..Len(sel) |-> <<I(fit_rhs)>>]),
              1))

\* a faulty fit_plane: the offset is added to the caller's array (colours += offset,
\* which in uint8 adds 128 modulo 256) and not to a copy of the selected rows
fit_plane_in_place(table) ==
    IF \E k \in 1..Len(sel) : PyIndex(sel[k], Len(table)) = -1
    THEN Raised("IndexError", <<"index out of bounds", Len(table)>>, table)
    ELSE [fit_plane_sel(table, [k \in 1..Len(sel) |-> PyIndex(sel[k], Len(table))])
            EXCEPT !.table = [i \in 1..Len(table) |->
                                [c \in 1..3 |-> (table[i][c] + offset) % 256]]]

fit_plane(table) ==
    LET n   == Len(table)
        idx == [k \in 1..Len(sel) |-> PyIndex(sel[k], n)]
    IN  IF \E k \in 1..Len(sel) : idx[k] = -1
        THEN Raised("IndexError", <<"index out of bounds", n>>, table)
        ELSE fit_plane_sel(table, idx)

\* np.arange(0, 256, 5, dtype=np.uint8)
channel == [k \in 1..52 |-> 5 * (k - 1)]

\* a faulty project_grid_cell: the clip is left out
project_grid_cell_unclipped(nrm, r, i, j) ==
    <<RSub(RDiv(r, nrm[1]),
           RAdd(RMul(I(channel[j]), RDiv(nrm[2], nrm[1])),
                RMul(I(channel[i]), RDiv(nrm[3], nrm[1])))),
      I(channel[j]), I(channel[i])>>

\* cell [i][j] of the grid: green is channel[j], blue is channel[i], red is solved
\* from the plane equation, and the three are clipped
project_grid_cell(nrm, r, i, j) ==
    LET gg == I(channel[j])
        bb == I(channel[i])
        rr == RSub(RDiv(r, nrm[1]),
                   RAdd(RMul(gg, RDiv(nrm[2], nrm[1])), RMul(bb, RDiv(nrm[3], nrm[1]))))
    IN  [c \in 1..3 |-> Clip(<<rr, gg, bb>>[c], I(0), I(255))]

project_grid(nrm, r) ==
    [i \in 1..Len(channel) |-> [j \in 1..Len(channel) |-> project_grid_cell(nrm, r, i, j)]]

\* one row of project_irregular: offset + v - (v@w) * w/w.dot(w)
project_point(p, nrm, r) ==
    LET off == <<RDiv(r, nrm[1]), Zero, Zero>>
        v   == Array([c \in 1..3 |-> RSub(p[c], off[c])])
        w   == nrm
        vw  == Dot(v, w)
        ww  == Dot(w, w)
    IN  [c \in 1..3 |-> RSub(RAdd(off[c], v[c]), RMul(vw, RDiv(w[c], ww)))]

\* project_irregular on an array of floats (its own output, for one)
project_rows(points, nrm, r) ==
    [i \in 1..Len(points) |-> project_point(points[i], nrm, r)]

\* project_irregular on the uint8 colour table
project_irregular(table, nrm, r) ==
    Returned(project_rows([i \in 1..Len(table) |-> ToFloat(table[i])], nrm, r), table)

(***************************************************************************)
(* The reduction path: get_corner_idx, fit_project_linprog,                *)
(* get_antiprojection, plot_delaunay_gouraud                               *)
(***************************************************************************)
\* name_to_index = dict(zip(colour_names, range(len(colour_names))))
name_to_index(names, k) ==
    LET hits == {i \in 1..Len(names) : names[i] = k}
    IN  IF hits = {} THEN -1 ELSE (CHOOSE i \in hits : \A j \in hits : j <= i) - 1

get_corner_idx(names, p00, p01, p10, p11) ==
    LET corner_names == <<p00, p01, p10, p11>>
        missing      == {q \in 1..4 : name_to_index(names, corner_names[q]) = -1}
    IN  IF missing # {}
        THEN Raised("KeyError",
                    <<corner_names[CHOOSE q \in missing : \A m \in missing : q <= m]>>,
                    names)
        ELSE Returned([q \in 1..4 |-> name_to_index(names, corner_names[q])], names)

\* u,v coordinates of the coordinate system target corners
corner_targets == <<<<0, 0>>, <<0, 1>>, <<1, 0>>, <<1, 1>>>>

\* a faulty directions, with the sign the other way round: 2*corner_targets.T - 1
directions_negated(targets) ==
    [d \in 1..2 |-> [q \in 1..Len(targets) |-> 2 * targets[q][d] - 1]]

\* directions = 1 - 2*corner_targets.T: row d, column q
directions(targets) == [d \in 1..2 |-> [q \in 1..Len(targets) |-> 1 - 2 * targets[q][d]]]

\* cost[at + idx] = values, as numpy assigns: a repeated index keeps the last value
Assign(cost, at, idx, values) ==
    [j \in 1..Len(cost) |->
        LET hits == {q \in 1..Len(idx) : at + idx[q] = j - 1}
        IN  IF hits = {} THEN cost[j]
            ELSE values[CHOOSE q \in hits : \A m \in hits : m <= q]]

\* a faulty lp_cost: the v directions are written where the u's are
lp_cost_unshifted(n, targets, cidx) ==
    LET zeros == [j \in 1..(2 * 4 + 2 * n) |-> 0]
        c1    == Assign(zeros, 2 * 4, cidx, directions(targets)[1])
    IN  Assign(c1, 2 * 4, cidx, directions(targets)[2])

lp_cost(n, targets, cidx) ==
    LET zeros == [j \in 1..(2 * 4 + 2 * n) |-> 0]
        c1    == Assign(zeros, 2 * 4, cidx, directions(targets)[1])
    IN  Assign(c1, 2 * 4 + n, cidx, directions(targets)[2])

lp_lb(n) == [j \in 1..(2 * 4 + 2 * n) |-> IF j <= 2 * 4 THEN NegInf ELSE Zero]

\* a faulty lp_ub: the upper bound of the u's and v's is 2
lp_ub_two(n) == [j \in 1..(2 * 4 + 2 * n) |-> IF j <= 2 * 4 THEN PosInf ELSE I(2)]

lp_ub(n) == [j \in 1..(2 * 4 + 2 * n) |-> IF j <= 2 * 4 THEN PosInf ELSE One]

\* affine = np.hstack((colours, np.ones((n, 1))))
affine_rows(table) == [i \in 1..Len(table) |-> table[i] \o <<1>>]

\* a = hstack((block_diag(affine, affine), -eye(2n))), dense, as integers
lp_a(table) ==
    LET n   == Len(table)
        aff == affine_rows(table)
    IN  Array([i \in 1..(2 * n) |-> Array([j \in 1..(2 * 4 + 2 * n) |->
            IF i <= n /\ j <= 4 THEN aff[i][j]
            ELSE IF i > n /\ j > 4 /\ j <= 2 * 4 THEN aff[i - n][j - 4]
            ELSE IF j = 2 * 4 + i THEN -1
            ELSE 0])])

(***************************************************************************)
(* scipy.optimize.milp with integrality=0 is a linear-program solver.  It  *)
(* is modelled by its contract on the programs fit_project_linprog builds: *)
(* it answers with any optimal basic solution of                           *)
(*     minimise c@x  subject to  lb <= x <= ub,  a@x = 0,                  *)
(* with "infeasible" when there is none, or with a failure of its own.     *)
(* The program has two blocks that share no variable, constraint or cost   *)
(* term (abcd with the u's, efgh with the v's); within a block the basic   *)
(* solutions are found by fixing as many coordinates at a bound as the     *)
(* block's rank and solving for the matrix entries, the others being 0.    *)
(* Every variable that carries a cost is bounded, so a feasible program    *)
(* has an optimum.                                                         *)
(***************************************************************************)
RECURSIVE IDet(_)
IDet(M) ==
    IF Len(M) = 0 THEN 1
    ELSE IF Len(M) = 1 THEN M[1][1]
    ELSE LET term(j) ==
                 IF M[1][j] = 0 THEN 0
                 ELSE (IF j % 2 = 1 THEN 1 ELSE -1) * M[1][j]
                      * IDet([i \in 1..(Len(M) - 1) |-> Remove(M[i + 1], j)])
             sum[j \in 0..Len(M)] == IF j = 0 THEN 0 ELSE sum[j - 1] + term(j)
         IN  sum[Len(M)]

\* Cramer's rule on an integer system
SolveI(N, y) ==
    LET d == IDet(N)
    IN  [j \in 1..Len(N) |->
            Frac(IDet([i \in 1..Len(N) |->
                        [k \in 1..Len(N) |-> IF k = j THEN y[i] ELSE N[i][k]]]), d)]

\* rows S and columns J of the integer matrix m
Minor(m, S, J) == Array([k \in 1..Len(S) |-> Array([q \in 1..Len(J) |-> m[S[k]][J[q]]])])

\* the non-singular k*k minors of the n*4 matrix m, by their rows and columns
Regular(m, n, k) ==
    {bs \in {<<SetToSeq(S), SetToSeq(J)>> :
                S \in {T \in SUBSET (1..n) : Cardinality(T) = k},
                J \in {K \in SUBSET (1..4) : Cardinality(K) = k}} :
        IDet(Minor(m, bs[1], bs[2])) # 0}

\* the rank of the n*4 integer matrix m
IRank(m, n) ==
    CHOOSE k \in 0..4 : Regular(m, n, k) # {} /\ \A q \in (k + 1)..4 : Regular(m, n, q) = {}

\* a column of the projection matrix: solJ on the columns J, zero elsewhere
Spread(J, solJ) ==
    Array([q \in 1..4 |->
        IF \E k \in 1..Len(J) : J[k] = q
        THEN solJ[CHOOSE k \in 1..Len(J) : J[k] = q] ELSE Zero])

\* the u's (or v's) that the column col gives: m @ col + d * uv = 0
block_uv(m, d, n, col) ==
    [col |-> col,
     uv  |-> Array([i \in 1..n |-> RDiv(RNeg(Dot(ToFloat(m[i]), col)), I(d[i]))])]

\* the basic solution with the coordinates S fixed at the bounds `at`
basic_solution(m, d, n, S, J, at) ==
    block_uv(m, d, n,
        Spread(J, IF \A k \in 1..Len(S) : at[k][2] = 1
                  THEN SolveI(Minor(m, S, J), [k \in 1..Len(S) |-> -d[S[k]] * at[k][1]])
                  ELSE Solve(Array([k \in 1..Len(S) |-> ToFloat(Minor(m, S, J)[k])]),
                             Array([k \in 1..Len(S) |-> RMul(I(-d[S[k]]), at[k])]))))

\* the basic feasible solutions of a block of rank r
basic_feasible(m, d, lo, hi, n, r) ==
    {cd \in {basic_solution(m, d, n, base[1], base[2],
                            Array([k \in 1..r |-> IF s[k] THEN hi[base[1][k]]
                                                  ELSE lo[base[1][k]]])) :
                base \in Regular(m, n, r), s \in [1..r -> BOOLEAN]} :
        \A i \in 1..n : RLe(lo[i], cd.uv[i]) /\ RLe(cd.uv[i], hi[i])}

\* the block's matrix: rows of affine
block_m(a, n, blk) ==
    Array([i \in 1..n |-> Array([r \in 1..4 |-> a[blk * n + i][blk * 4 + r]])])

\* the basic feasible solutions of block blk (0: abcd and u, 1: efgh and v)
milp_block(lb, ub, a, n, blk) ==
    basic_feasible(block_m(a, n, blk),
                   Array([i \in 1..n |-> a[blk * n + i][2 * 4 + blk * n + i]]),
                   Array([i \in 1..n |-> lb[2 * 4 + blk * n + i]]),
                   Array([i \in 1..n |-> ub[2 * 4 + blk * n + i]]),
                   n, IRank(block_m(a, n, blk), n))

\* the cost a block's solution contributes
block_cost(c, n, blk, cd) ==
    RAdd(Dot([r \in 1..4 |-> I(c[blk * 4 + r])], cd.col),
         Dot([i \in 1..n |-> I(c[2 * 4 + blk * n + i])], cd.uv))

\* the least of a set of costs
least(costs) == CHOOSE v \in costs : \A w \in costs : RLe(v, w)

\* the optimal ones of a block's basic feasible solutions
block_optima(c, n, blk, feasible) ==
    {cd \in feasible :
        block_cost(c, n, blk, cd) = least({block_cost(c, n, blk, e) : e \in feasible})}

RowDot(row, x) ==
    RSum([j \in 1..Len(row) |-> IF row[j] = 0 THEN Zero ELSE RMul(I(row[j]), x[j])])

\* x satisfies the bounds and the equality constraints
lp_feasible(x, lb, ub, a) ==
    /\ \A j \in 1..Len(x) : RLe(lb[j], x[j]) /\ RLe(x[j], ub[j])
    /\ \A i \in 1..Len(a) : RowDot(a[i], x) = Zero

\* the results milp may hand back, from the blocks' basic feasible solutions
milp_blocks(c, lb, ub, a, n, fu, fv) ==
    {[success |-> TRUE, status |-> 0, x |-> x,
      message |-> "Optimization terminated successfully."] :
        x \in {y \in {cu.col \o cv.col \o cu.uv \o cv.uv :
                         cu \in block_optima(c, n, 0, fu),
                         cv \in block_optima(c, n, 1, fv)} : lp_feasible(y, lb, ub, a)}}
    \cup (IF fu = {} \/ fv = {}
          THEN {[success |-> FALSE, status |-> 2, x |-> None,
                 message |-> "The problem is infeasible."]}
          ELSE {})
    \cup {[success |-> FALSE, status |-> 4, x |-> None,
           message |-> "Other; see message details."]}

\* the results milp may hand back
milp(c, lb, ub, a, n) ==
    milp_blocks(c, lb, ub, a, n, milp_block(lb, ub, a, n, 0), milp_block(lb, ub, a, n, 1))

\* the results milp may hand back for the program fit_project_linprog builds
milp_results(table, targets, cidx) ==
    LET n == Len(table)
    IN  milp(lp_cost(n, targets, cidx), lp_lb(n), lp_ub(n), lp_a(table), n)

\* a faulty unpack: the two parts are reshaped row by row, with no transposition
unpack_row_major(x, n) ==
    [projection |-> [r \in 1..4 |-> [c \in 1..2 |-> x[(r - 1) * 2 + c]]],
     projected  |-> [i \in 1..n |-> [c \in 1..2 |-> x[2 * 4 + (i - 1) * 2 + c]]]]

\* np.split(result.x, (2*4,)), then reshape((2, 4)).T and reshape((2, -1)).T
unpack(x, n) ==
    [projection |-> [r \in 1..4 |-> [c \in 1..2 |-> x[(c - 1) * 4 + r]]],
     projected  |-> [i \in 1..n |-> [c \in 1..2 |-> x[2 * 4 + (c - 1) * n + i]]]]

\* fit_project_linprog, given what milp handed back
fit_project_linprog(table, targets, cidx, result) ==
    IF ~result.success THEN Raised("ValueError", <<result.message>>, table)
    ELSE Returned(unpack(result.x, Len(table)), table)

\* a faulty get_antiprojection: the anchors' coordinates are paired with the
\* first rows of the table, not with the anchors' rows
get_antiprojection_unpaired(table, uv, cidx) ==
    Returned(lstsq(Array([q \in 1..Len(cidx) |-> uv[cidx[q] + 1] \o <<One>>]), 3,
                   Array([q \in 1..Len(cidx) |-> ToFloat(table[q])]), 3).x, table)

\* lstsq on the four anchors: [u v 1] @ anti ~ rgb
get_antiprojection(table, uv, cidx) ==
    LET a == Array([q \in 1..Len(cidx) |-> uv[cidx[q] + 1] \o <<One>>])
        b == Array([q \in 1..Len(cidx) |-> ToFloat(table[cidx[q] + 1])])
    IN  Returned(lstsq(a, 3, b, 3).x, table)

\* ndarray.astype(np.uint8) of a float already clipped to [0, 255]: truncation
AsUint8(q) == q[1] \div q[2]

\* a faulty corner_occupied: either coordinate is enough (any in place of all)
corner_occupied_any(uv, target) ==
    \E i \in 1..Len(uv) : REq(uv[i][1], I(target[1])) \/ REq(uv[i][2], I(target[2]))

\* some projected point equals the target corner in both coordinates
corner_occupied(uv, target) ==
    \E i \in 1..Len(uv) : REq(uv[i][1], I(target[1])) /\ REq(uv[i][2], I(target[2]))

\* the part of plot_delaunay_gouraud that computes: the target corners no
\* projected point equals, the points with those corners appended, and the
\* corners' extrapolated colours
plot_delaunay_gouraud(table, targets, anti, uv) ==
    LET keep    == SetToSeq({q \in 1..Len(targets) : ~corner_occupied(uv, targets[q])})
        missing == [j \in 1..Len(keep) |-> targets[keep[j]]]
        rgb     == [j \in 1..Len(keep) |-> [c \in 1..3 |->
                       AsUint8(Clip(Dot(ToFloat(missing[j]) \o <<One>>, Column(anti, c)),
                                    I(0), I(255)))]]
    IN  Returned([missing_corners        |-> missing,
                  projected_with_corners |-> uv \o [j \in 1..Len(keep) |-> ToFloat(missing[j])],
                  corner_rgb             |-> rgb], table)

(***************************************************************************)
(* Inputs.  demo() builds one table of 21 colours; its numbers are beyond  *)
(* exact 32-bit arithmetic, so the tables below are small ones of the same *)
(* shape: the first names of the dictionary in the order of the            *)
(* five-colour scenario, and colours close to each other.                  *)
(***************************************************************************)
name_list ==
    <<"black", "white", "green", "ochre", "purple", "olive", "olive-brown", "brown",
      "yellow", "pink", "tan", "salmon", "cream", "buff", "blackish-brown",
      "reddish-brown", "pinkish-brown", "yellow-orange", "purple-black",
      "purple-brown", "yellow-brown">>

names_of(n) == SubSeq(name_list, 1, n)

\* black, white, green, ochre of the reduction tables
AnchorTables ==
    { <<<<0, 0, 0>>, <<4, 4, 4>>, <<0, 4, 0>>, <<4, 0, 0>>>>,   \* a tetrahedron
      <<<<0, 0, 0>>, <<4, 4, 0>>, <<0, 4, 0>>, <<4, 0, 0>>>>,   \* a parallelogram
      <<<<0, 0, 0>>, <<8, 8, 8>>, <<4, 5, 3>>, <<7, 4, 1>>>>,   \* in general position
      <<<<0, 0, 0>>, <<0, 0, 0>>, <<0, 4, 0>>, <<4, 0, 0>>>> }  \* white equal to black

\* a table of one colour four times
OneColourTable == <<<<2, 2, 2>>, <<2, 2, 2>>, <<2, 2, 2>>, <<2, 2, 2>>>>

extra_list ==
    <<<<1, 1, 1>>, <<0, 0, 0>>, <<8, 0, 0>>, <<3, 2, 4>>, <<0, 0, 4>>, <<4, 4, 0>>>>

\* how many colours of extra_list a table may draw its other samples from
PaletteSize == 3

\* how many samples a table has besides the four anchors
MaxExtra == 1

ReductionTables ==
    {a \o e : a \in AnchorTables,
              e \in UNION {[1..k -> {extra_list[q] : q \in 1..PaletteSize}] : k \in 0..MaxExtra}}
    \cup {OneColourTable}

plane_list ==
    <<<<128, 129, 128>>, <<129, 129, 128>>, <<130, 129, 128>>, <<129, 128, 128>>,
      <<128, 128, 130>>, <<127, 128, 129>>>>

\* how many colours of plane_list the rows fit_plane selects are drawn from
PlanePaletteSize == 4

PlanePalette == {plane_list[q] : q \in 1..PlanePaletteSize}

\* tables of three rows, and tables of 19 and of 21 rows whose rows 6 and 12 vary
PlaneTables ==
    [1..3 -> PlanePalette]
    \cup {[i \in 1..n |-> IF i = 7 THEN f[1] ELSE IF i = 13 THEN f[2]
                          ELSE IF i = n THEN <<128, 128, 129>> ELSE <<128, 128, 128>>] :
            n \in {19, 21}, f \in [1..2 -> PlanePalette]}

TypeNone ==
    /\ normal = None /\ rhs = None /\ rgb_float = None /\ proj_plane = None
    /\ reprojected = None /\ corner_idx = None /\ projection = None /\ projected = None
    /\ antiprojection = None /\ missing_corners = None /\ projected_with_corners = None
    /\ corner_rgb = None /\ err = NoError /\ calls = <<>>
    /\ colour_strs = None /\ proj_strs = None /\ all_strs = None
    /\ WikiIdle /\ CacheIdle

Init ==
    /\ pc = "demo"
    /\ lp_reduction \in BOOLEAN
    /\ colours \in (IF lp_reduction THEN ReductionTables ELSE PlaneTables)
    /\ colour_names = names_of(Len(colours))
    /\ TypeNone

(***************************************************************************)
(* The program: demo, demo_planar, demo_reduction.  No function catches an *)
(* exception, so one raised in a call ends the program at demo's caller.   *)
(***************************************************************************)
\* a faulty propagate: the exception is swallowed and the program goes on
propagate_swallowed(out, next) == next

\* where control goes after a call: to the next statement, or out of the program
propagate(out, next) == IF out.raised.kind # "None" THEN "raised" ELSE next

(***************************************************************************)
(* triples_to_hex.  A string is the sequence of its characters.            *)
(***************************************************************************)
hex_digit == <<"0", "1", "2", "3", "4", "5", "6", "7",
               "8", "9", "a", "b", "c", "d", "e", "f">>

\* the digits of n >= 0 in base 16, most significant first, no padding
RECURSIVE HexDigits(_)
HexDigits(n) ==
    IF n < 16 THEN <<hex_digit[n + 1]>>
    ELSE Append(HexDigits(n \div 16), hex_digit[(n % 16) + 1])

\* zeros on the left up to the width w; a longer string is left as it is
RECURSIVE ZeroPad(_, _)
ZeroPad(s, w) == IF Len(s) >= w THEN s ELSE ZeroPad(<<"0">> \o s, w)

\* a faulty format: f'{n:x}', no minimum width
format_x(n) == IF n < 0 THEN <<"-">> \o HexDigits(-n) ELSE HexDigits(n)

\* f'{n:02x}': the sign of a negative number counts in the width
format_02x(n) ==
    IF n < 0 THEN <<"-">> \o ZeroPad(HexDigits(-n), 1) ELSE ZeroPad(HexDigits(n), 2)

triple_to_hex(t) == <<"#">> \o format_02x(t[1]) \o format_02x(t[2]) \o format_02x(t[3])

triples_to_hex(triples) == Array([i \in 1..Len(triples) |-> triple_to_hex(triples[i])])

\* what a cast of nan to uint8 may give: C leaves the conversion undefined
NanBytes == 0..255

\* .clip(min=0, max=255).astype(np.uint8) of one float; nan casts to nan_byte
clip_uint8(q, nan_byte) ==
    IF IsNaN(q) THEN nan_byte ELSE AsUint8(Clip(q, I(0), I(255)))

clip_rows(points, nan_byte) ==
    Array([i \in 1..Len(points) |->
              Array([c \in 1..3 |-> clip_uint8(points[i][c], nan_byte)])])

HasNaN(points) == \E i \in 1..Len(points) : \E c \in 1..3 : IsNaN(points[i][c])

strVars == <<colour_strs, proj_strs, all_strs>>

planeVars == <<normal, rhs, rgb_float, proj_plane, reprojected>>

lpVars == <<corner_idx, projection, projected, antiprojection, missing_corners,
            projected_with_corners, corner_rgb>>

Demo ==
    /\ pc = "demo"
    /\ pc' = IF lp_reduction THEN "get_corner_idx" ELSE "fit_plane"
    /\ colour_strs' = triples_to_hex(colours)
    /\ calls' = Append(calls, "demo")
    /\ UNCHANGED <<ioVars, proj_strs, all_strs, lp_reduction, colour_names, colours, planeVars,
                   lpVars, err>>

FitPlane ==
    /\ pc = "fit_plane"
    /\ \E out \in {fit_plane(colours)} :
           /\ colours' = out.table
           /\ err' = out.raised
           /\ pc' = propagate(out, "project_grid")
           /\ normal' = IF out.raised.kind = "None" THEN out.value.normal ELSE normal
           /\ rhs' = IF out.raised.kind = "None" THEN out.value.rhs ELSE rhs
    /\ calls' = Append(calls, "fit_plane")
    /\ UNCHANGED <<ioVars, strVars, lp_reduction, colour_names, rgb_float, proj_plane, reprojected, lpVars>>

ProjectGrid ==
    /\ pc = "project_grid"
    /\ rgb_float' = project_grid(normal, rhs)
    /\ pc' = "project_irregular"
    /\ calls' = Append(calls, "project_grid")
    /\ UNCHANGED <<ioVars, strVars, lp_reduction, colour_names, colours, normal, rhs, proj_plane,
                   reprojected, lpVars, err>>

ProjectIrregular ==
    /\ pc = "project_irregular"
    /\ \E out \in {project_irregular(colours, normal, rhs)} :
           /\ colours' = out.table
           /\ proj_plane' = out.value
    /\ pc' = "triples_to_hex"
    /\ calls' = Append(calls, "project_irregular")
    /\ UNCHANGED <<ioVars, strVars, lp_reduction, colour_names, normal, rhs, rgb_float, reprojected,
                   lpVars, err>>

\* proj_strs = triples_to_hex(projected.clip(min=0, max=255).astype(np.uint8))
ProjectedToHex ==
    /\ pc = "triples_to_hex"
    /\ \E nan_byte \in (IF HasNaN(proj_plane) THEN NanBytes ELSE {0}) :
           proj_strs' = triples_to_hex(clip_rows(proj_plane, nan_byte))
    /\ pc' = "plot_2d"
    /\ calls' = Append(calls, "triples_to_hex")
    /\ UNCHANGED <<ioVars, colour_strs, all_strs, lp_reduction, colour_names, colours, planeVars,
                   lpVars, err>>

\* a plotting call: it hands the data to matplotlib, which is not modelled
Plot(at, name, next) ==
    /\ pc = at
    /\ pc' = next
    /\ calls' = Append(calls, name)
    /\ UNCHANGED <<ioVars, strVars, lp_reduction, colour_names, colours, planeVars, lpVars, err>>

Plot2d == Plot("plot_2d", "plot_2d", "plot_3d")

Plot3d == Plot("plot_3d", "plot_3d", "plot_correspondences")

PlotCorrespondences == Plot("plot_correspondences", "plot_correspondences", "show")

GetCornerIdx ==
    /\ pc = "get_corner_idx"
    /\ \E out \in {get_corner_idx(colour_names, "black", "green", "ochre", "white")} :
           /\ colour_names' = out.table
           /\ err' = out.raised
           /\ pc' = propagate(out, "fit_project_linprog")
           /\ corner_idx' = out.value
    /\ calls' = Append(calls, "get_corner_idx")
    /\ UNCHANGED <<ioVars, strVars, lp_reduction, colours, planeVars, projection, projected,
                   antiprojection, missing_corners, projected_with_corners, corner_rgb>>

FitProjectLinprog ==
    /\ pc = "fit_project_linprog"
    /\ \E result \in milp_results(colours, corner_targets, corner_idx) :
         \E out \in {fit_project_linprog(colours, corner_targets, corner_idx, result)} :
             /\ colours' = out.table
             /\ err' = out.raised
             /\ pc' = propagate(out, "get_antiprojection")
             /\ projection' = IF out.raised.kind = "None" THEN out.value.projection
                              ELSE projection
             /\ projected' = IF out.raised.kind = "None" THEN out.value.projected
                             ELSE projected
    /\ calls' = Append(calls, "fit_project_linprog")
    /\ UNCHANGED <<ioVars, strVars, lp_reduction, colour_names, planeVars, corner_idx, antiprojection,
                   missing_corners, projected_with_corners, corner_rgb>>

GetAntiprojection ==
    /\ pc = "get_antiprojection"
    /\ \E out \in {get_antiprojection(colours, projected, corner_idx)} :
           /\ colours' = out.table
           /\ antiprojection' = out.value
    /\ pc' = "plot_reduction_planar"
    /\ calls' = Append(calls, "get_antiprojection")
    /\ UNCHANGED <<ioVars, strVars, lp_reduction, colour_names, planeVars, corner_idx, projection,
                   projected, missing_corners, projected_with_corners, corner_rgb, err>>

PlotReductionPlanar == Plot("plot_reduction_planar", "plot_reduction_planar",
                            "plot_delaunay_gouraud")

PlotDelaunayGouraud ==
    /\ pc = "plot_delaunay_gouraud"
    /\ \E out \in {plot_delaunay_gouraud(colours, corner_targets, antiprojection, projected)} :
           /\ colours' = out.table
           /\ missing_corners' = out.value.missing_corners
           /\ projected_with_corners' = out.value.projected_with_corners
           /\ corner_rgb' = out.value.corner_rgb
           /\ all_strs' = colour_strs \o triples_to_hex(out.value.corner_rgb)
    /\ pc' = "show"
    /\ calls' = Append(calls, "plot_delaunay_gouraud")
    /\ UNCHANGED <<ioVars, colour_strs, proj_strs, lp_reduction, colour_names, planeVars, corner_idx, projection,
                   projected, antiprojection, err>>

\* plt.show(), the last statement of demo
Show == Plot("show", "show", "done")

Next ==
    \/ Demo
    \/ FitPlane \/ ProjectGrid \/ ProjectIrregular \/ ProjectedToHex
    \/ Plot2d \/ Plot3d \/ PlotCorrespondences
    \/ GetCornerIdx \/ FitProjectLinprog \/ GetAntiprojection
    \/ PlotReductionPlanar \/ PlotDelaunayGouraud
    \/ Show

Spec == Init /\ [][Next]_vars

(***************************************************************************)
(* The five-colour scenario of demo_reduction: black, white, green, ochre  *)
(* and purple with their real values, in every order of the table, with    *)
(* and without purple.  The run ends when fit_project_linprog has          *)
(* returned or raised.                                                     *)
(***************************************************************************)
scenario_names == <<"black", "white", "green", "ochre", "purple">>

scenario_colours ==
    <<<<0, 0, 0>>, <<255, 255, 255>>, <<124, 138, 104>>, <<204, 119, 34>>, <<90, 67, 100>>>>

\* the orders of the first n colours of the scenario
Orders(n) == {o \in [1..n -> 1..n] : \A i, j \in 1..n : o[i] = o[j] => i = j}

InitFit ==
    /\ pc = "demo"
    /\ lp_reduction = TRUE
    /\ \E n \in {4, 5} : \E o \in Orders(n) :
         /\ colours = [i \in 1..n |-> scenario_colours[o[i]]]
         /\ colour_names = [i \in 1..n |-> scenario_names[o[i]]]
    /\ TypeNone

NextFit == Demo \/ GetCornerIdx \/ FitProjectLinprog

SpecFit == InitFit /\ [][NextFit]_vars

(***************************************************************************)
(* project_grid and project_irregular as functions of a plane: applied to  *)
(* planes with a rational unit normal, fit_plane's normals being few.      *)
(* project_irregular is applied to a table and then to its own result,     *)
(* and project_grid after that.                                            *)
(***************************************************************************)
normal_list ==
    <<<<One, Zero, Zero>>, <<Zero, One, Zero>>, <<<<3, 5>>, <<4, 5>>, Zero>>,
      <<<<2, 3>>, <<2, 3>>, <<1, 3>>>>, <<<<-3, 5>>, Zero, <<4, 5>>>>,
      <<Zero, <<3, 5>>, <<4, 5>>>>, <<<<1, 3>>, <<-2, 3>>, <<2, 3>>>>,
      <<Zero, Zero, One>>>>

rhs_list == <<I(10), I(300), I(0), I(-5)>>

point_list ==
    <<<<10, 5, 0>>, <<0, 10, 0>>, <<255, 255, 255>>, <<0, 0, 0>>, <<30, 40, 50>>>>

\* how many of normal_list, rhs_list and point_list the planes and points come from
NormalCount == 6

RhsCount == 2

PointCount == 3

\* the length of the tables project_irregular is applied to
PointRows == 1

InitApply ==
    /\ pc = "apply"
    /\ lp_reduction = FALSE
    /\ colours \in [1..PointRows -> {point_list[q] : q \in 1..PointCount}]
    /\ colour_names = names_of(PointRows)
    /\ normal \in {normal_list[q] : q \in 1..NormalCount}
    /\ rhs \in {rhs_list[q] : q \in 1..RhsCount}
    /\ rgb_float = None /\ proj_plane = None /\ reprojected = None
    /\ corner_idx = None /\ projection = None /\ projected = None
    /\ antiprojection = None /\ missing_corners = None /\ projected_with_corners = None
    /\ corner_rgb = None /\ err = NoError /\ calls = <<>>
    /\ colour_strs = None /\ proj_strs = None /\ all_strs = None
    /\ WikiIdle /\ CacheIdle

ApplyProjectGrid ==
    /\ pc = "apply"
    /\ reprojected # None
    /\ rgb_float = None
    /\ rgb_float' = project_grid(normal, rhs)
    /\ calls' = Append(calls, "project_grid")
    /\ UNCHANGED <<ioVars, strVars, pc, lp_reduction, colour_names, colours, normal, rhs, proj_plane,
                   reprojected, lpVars, err>>

ApplyProjectIrregular ==
    /\ pc = "apply"
    /\ proj_plane = None
    /\ \E out \in {project_irregular(colours, normal, rhs)} :
           /\ colours' = out.table
           /\ proj_plane' = out.value
    /\ calls' = Append(calls, "project_irregular")
    /\ UNCHANGED <<ioVars, strVars, pc, lp_reduction, colour_names, normal, rhs, rgb_float, reprojected,
                   lpVars, err>>

\* project_irregular applied to what project_irregular returned
ApplyProjectAgain ==
    /\ pc = "apply"
    /\ proj_plane # None
    /\ reprojected = None
    /\ reprojected' = project_rows(proj_plane, normal, rhs)
    /\ calls' = Append(calls, "project_irregular")
    /\ UNCHANGED <<ioVars, strVars, pc, lp_reduction, colour_names, colours, normal, rhs, rgb_float,
                   proj_plane, lpVars, err>>

NextApply == ApplyProjectGrid \/ ApplyProjectIrregular \/ ApplyProjectAgain

SpecApply == InitApply /\ [][NextApply]_vars

(***************************************************************************)
(* Properties                                                              *)
(***************************************************************************)
\* q lies in the closed interval [0, 1]
InUnit(q) == RLe(Zero, q) /\ RLe(q, One)

\* C1: whenever fit_project_linprog has returned, `projected` has one row of
\* two coordinates for every colour of the table, anchors included, and each
\* coordinate lies in [0, 1].
C1_ProjectedInUnitBox ==
    projected # None =>
        /\ Len(projected) = Len(colours)
        /\ \A i \in 1..Len(projected) :
             Len(projected[i]) = 2 /\ InUnit(projected[i][1]) /\ InUnit(projected[i][2])

\* fit_project_linprog has returned for a table of five colours whose last
\* one is projected strictly inside the box
C1_Witness ==
    /\ pc = "get_antiprojection"
    /\ Len(projected) = 5
    /\ \A c \in 1..2 : RLt(Zero, projected[5][c]) /\ RLt(projected[5][c], One)

\* the row of `projected` that belongs to the colour called name
uv_of(name) == projected[name_to_index(colour_names, name) + 1]

\* fit_project_linprog has returned for the table of the five scenario colours
ScenarioSolved == projected # None /\ Len(colours) = 5

\* C2 (as the code has it): on the five-colour table, in whatever order its
\* rows are, white, green and ochre are projected onto their corners, black
\* onto (0, 473/1883) on the edge u = 0 and not onto its corner (0, 0), and
\* purple onto (716/765, 0) on the edge v = 0 of the box, not inside it.
C2_ScenarioProjection ==
    ScenarioSolved =>
        /\ uv_of("white") = <<One, One>>
        /\ uv_of("green") = <<Zero, One>>
        /\ uv_of("ochre") = <<One, Zero>>
        /\ uv_of("black") = <<Zero, <<473, 1883>>>>
        /\ uv_of("purple") = <<<<716, 765>>, Zero>>

\* fit_project_linprog has returned for the table in the order the claim gives
C2_Witness ==
    /\ pc = "get_antiprojection"
    /\ colour_names = scenario_names
    /\ colours = scenario_colours
    /\ projected # None

\* how far from its corner an anchor may be and still be at it
Epsilon == <<1, 1000>>

\* |a - b| <= Epsilon
Near(a, b) == RLe(RSub(a, b), Epsilon) /\ RLe(RSub(b, a), Epsilon)

\* C2 as stated: purple is strictly inside the box and each anchor is within
\* Epsilon of its corner.
C2_AsStated ==
    ScenarioSolved =>
        /\ \A c \in 1..2 : RLt(Zero, uv_of("purple")[c]) /\ RLt(uv_of("purple")[c], One)
        /\ \A q \in 1..4 : \A c \in 1..2 :
             Near(uv_of(<<"black", "green", "ochre", "white">>[q])[c],
                  I(corner_targets[q][c]))

\* an exception has reached demo's caller
Failed == err.kind # "None"

\* the state of a run in which a fitter has failed: the fitter was the last
\* function called and was called once, nothing it or a later stage computes
\* exists, and control has left the program with the exception
FailedRun ==
    /\ pc = "raised"
    /\ \/ /\ calls = <<"demo", "fit_plane">>
          /\ err.kind \in {"IndexError", "ValueError"}
          /\ normal = None /\ rhs = None /\ rgb_float = None /\ proj_plane = None
       \/ /\ calls = <<"demo", "get_corner_idx", "fit_project_linprog">>
          /\ err.kind = "ValueError"
          /\ projection = None /\ projected = None /\ antiprojection = None
          /\ missing_corners = None /\ projected_with_corners = None /\ corner_rgb = None

\* a call of a fitter either returns its result or ends the program with the
\* exception it raised; it never goes on without a result
FitterStep ==
    /\ pc = "fit_plane" =>
         IF fit_plane(colours).raised.kind # "None"
         THEN err' = fit_plane(colours).raised /\ pc' = "raised" /\ normal' = None
         ELSE err' = NoError /\ normal' # None
    /\ pc = "fit_project_linprog" =>
         IF projected' = None
         THEN err'.kind = "ValueError" /\ pc' = "raised" /\ projection' = None
         ELSE err' = NoError /\ projection' # None

\* C4: a failure of fit_plane or of fit_project_linprog ends the run: no
\* later stage of demo_planar or demo_reduction runs, the failed stage is not
\* called again, the exception is what the caller gets, and nothing changes
\* afterwards.
C4_FailureTerminal ==
    /\ [](Failed => FailedRun)
    /\ [][FitterStep /\ (Failed => UNCHANGED vars)]_vars

\* fit_plane has raised on selected rows of rank 2
C4_Witness ==
    /\ pc = "raised"
    /\ err = [kind |-> "ValueError", msg |-> <<"Deficient rank", 2>>]
    /\ calls = <<"demo", "fit_plane">>

\* fit_plane has been called (it is demo_planar's first call)
FitPlaneCalled == Len(calls) >= 2 /\ calls[2] = "fit_plane"

\* the rows fit_plane selects from a table of at least 19 rows, offset added
SelectedRows ==
    [k \in 1..Len(sel) |->
        [c \in 1..3 |-> colours[PyIndex(sel[k], Len(colours)) + 1][c] + offset]]

\* the selected rows have rank below 3: every three of them are dependent
SelectionDegenerate ==
    \A i, j, k \in 1..Len(sel) :
        IDet(<<SelectedRows[i], SelectedRows[j], SelectedRows[k]>>) = 0

\* C5 (as the code has it): fit_plane reads rows 0, 6, 12, 18 and -1, so a
\* table of fewer than 19 rows, three collinear points included, is refused
\* with IndexError before any rank is computed; a table of at least 19 rows
\* is refused with ValueError "Deficient rank" exactly when its selected
\* rows, offset added, have rank below 3; a refused table yields no plane.
C5_RejectsDegenerate ==
    FitPlaneCalled =>
        IF Len(colours) < 19
        THEN err.kind = "IndexError" /\ normal = None /\ rhs = None
        ELSE IF SelectionDegenerate
        THEN /\ err.kind = "ValueError" /\ err.msg[1] = "Deficient rank" /\ err.msg[2] < 3
             /\ normal = None /\ rhs = None
        ELSE err = NoError /\ normal # None /\ rhs # None

\* the table is three distinct points on one line
ThreeCollinear ==
    /\ Len(colours) = 3
    /\ Cardinality({colours[i] : i \in 1..3}) = 3
    /\ \A a, b \in 1..3 : a < b =>
         (colours[2][a] - colours[1][a]) * (colours[3][b] - colours[1][b])
           = (colours[2][b] - colours[1][b]) * (colours[3][a] - colours[1][a])

\* fit_plane has been given three distinct collinear points
C5_Witness == FitPlaneCalled /\ ThreeCollinear /\ Failed

\* C5 as stated: three collinear points are refused by the rank check.
C5_AsStated ==
    FitPlaneCalled /\ ThreeCollinear =>
        err.kind = "ValueError" /\ err.msg[1] = "Deficient rank" /\ normal = None

\* anchor q's homogeneous projected coordinate [u v 1], and its colour
AnchorUV1(q) == projected[corner_idx[q] + 1] \o <<One>>

AnchorRGB(q) == ToFloat(colours[corner_idx[q] + 1])

\* channel c of [u v 1] @ antiprojection for anchor q
RoundTrip(q, c) == Dot(AnchorUV1(q), Column(antiprojection, c))

\* the round trip gives every anchor its own colour back
AnchorsReproduced == \A q \in 1..4 : \A c \in 1..3 : RoundTrip(q, c) = AnchorRGB(q)[c]

\* each channel of the anchors' colours is an affine function of their (u, v):
\* appending it as a fourth column to the rows [u v 1] does not raise the rank
AnchorsAffine ==
    \A c \in 1..3 :
        Rank(Array([q \in 1..4 |-> AnchorUV1(q) \o <<AnchorRGB(q)[c]>>]), 4)
          = Rank(Array([q \in 1..4 |-> AnchorUV1(q)]), 3)

\* the round trip's error is orthogonal to the columns u, v and 1 of the system
LeastSquares ==
    \A j \in 1..3 : \A c \in 1..3 :
        RSum([q \in 1..4 |-> RMul(AnchorUV1(q)[j], RSub(RoundTrip(q, c), AnchorRGB(q)[c]))])
          = Zero

\* C6 (as the code has it): get_antiprojection solves four equations in three
\* unknowns per channel by least squares; the round trip reproduces the
\* anchors' colours exactly when, and only when, the colours are an affine
\* function of the anchors' (u, v), and is the least-squares fit otherwise.
C6_RoundTripLeastSquares ==
    antiprojection # None => LeastSquares /\ (AnchorsReproduced <=> AnchorsAffine)

\* the four anchors are at four different places and get their colours back
C6_Witness ==
    /\ antiprojection # None
    /\ Cardinality({projected[corner_idx[q] + 1] : q \in 1..4}) = 4
    /\ AnchorsReproduced

\* C6 as stated: the round trip reproduces every anchor's colour exactly.
C6_AsStated == antiprojection # None => AnchorsReproduced

\* row i of the table lies on the plane: point . normal = rhs
OnPlane(i) == Dot(ToFloat(colours[i]), normal) = rhs

\* C7 as stated: projecting a projected point gives the same point again,
\* and a point on the plane is its own projection, for every unit normal,
\* those whose red component is zero included.
C7_Idempotent ==
    reprojected # None =>
        \A i \in 1..Len(colours) : \A c \in 1..3 :
            /\ REq(reprojected[i][c], proj_plane[i][c])
            /\ OnPlane(i) => REq(proj_plane[i][c], I(colours[i][c]))

\* a point on a plane whose normal has no red component has been projected
\* twice
C7_Witness ==
    /\ reprojected # None
    /\ normal[1] = Zero
    /\ OnPlane(1)
    /\ \A c \in 1..3 : IsNaN(proj_plane[1][c])

\* the target corners at which some sample is projected
OccupiedCorners ==
    {q \in 1..4 : \E i \in 1..Len(projected) : projected[i] = ToFloat(corner_targets[q])}

\* the samples that are projected onto some target corner
CornerSamples ==
    {i \in 1..Len(projected) : \E q \in 1..4 : projected[i] = ToFloat(corner_targets[q])}

\* plot_delaunay_gouraud has computed its points
Rendered == projected_with_corners # None

\* C8 (as the code has it): the points appended to the reduced point set are
\* the target corners at which no sample is projected, each once and in the
\* order of the targets, after the samples themselves; so 4 - k points are
\* appended, k being the number of occupied corners, which is smaller than
\* the number of samples on corners when two samples share a corner.
C8_SyntheticCorners ==
    Rendered =>
        /\ Len(missing_corners) = 4 - Cardinality(OccupiedCorners)
        /\ missing_corners
             = [j \in 1..Len(missing_corners) |->
                  corner_targets[SetToSeq((1..4) \ OccupiedCorners)[j]]]
        /\ projected_with_corners
             = projected \o [j \in 1..Len(missing_corners) |-> ToFloat(missing_corners[j])]
        /\ Len(corner_rgb) = Len(missing_corners)

\* two samples share a corner and another corner is empty
C8_Witness ==
    /\ Rendered
    /\ Cardinality(CornerSamples) > Cardinality(OccupiedCorners)
    /\ missing_corners # <<>>

\* C8 as stated: 4 - k points are appended, k being the number of samples
\* that occupy a target corner.
C8_AsStated ==
    Rendered => Len(projected_with_corners) - Len(projected) = 4 - Cardinality(CornerSamples)

\* a call's result is what the same call on the table as the call left it
\* gives: the result of a repeated call
Repeatable ==
    /\ pc = "fit_plane" =>
         /\ err' = fit_plane(colours').raised
         /\ err' = NoError =>
              normal' = fit_plane(colours').value.normal /\ rhs' = fit_plane(colours').value.rhs
    /\ pc = "project_grid" => rgb_float' = project_grid(normal', rhs')
    /\ pc = "project_irregular" =>
         proj_plane' = project_irregular(colours', normal', rhs').value
    /\ pc = "get_corner_idx" =>
         corner_idx' = get_corner_idx(colour_names', "black", "green", "ochre", "white").value
    /\ pc = "fit_project_linprog" /\ projected' # None =>
         \E result \in milp_results(colours', corner_targets, corner_idx') :
             /\ result.success
             /\ fit_project_linprog(colours', corner_targets, corner_idx', result).value
                  = [projection |-> projection', projected |-> projected']
    /\ pc = "get_antiprojection" =>
         antiprojection' = get_antiprojection(colours', projected', corner_idx').value

\* C9: no operation changes the colour table or the colour names it is
\* given: they are the same after every step as before it, and a call
\* repeated on them gives the same result.
C9_TableNeverModified ==
    [][colours' = colours /\ colour_names' = colour_names /\ Repeatable]_vars

\* fit_plane, project_grid and project_irregular have run on a table
C9_Witness == pc = "done" /\ normal # None /\ rgb_float # None /\ proj_plane # None

\* the red value of the plane above green g and blue b:
\* (rhs - g*normal[1] - b*normal[2]) / normal[0]
RedOnPlane(g, b) ==
    RDiv(RSub(rhs, RAdd(RMul(I(g), normal[2]), RMul(I(b), normal[3]))), normal[1])

\* a channel value within [0, 255]
InByte(q) == RLe(I(0), q) /\ RLe(q, I(255))

\* C10: for a plane whose normal has a red component, every cell of
\* project_grid's field has its three channels in [0, 255]: green and blue
\* are the grid's own samples 0, 5, ..., 255 (green along the second index,
\* blue along the first), and red is the plane's red value there, replaced by
\* 0 when it is below 0 and by 255 when it is above 255.
C10_GridInRange ==
    rgb_float # None /\ normal[1] # Zero =>
        /\ Len(rgb_float) = 52
        /\ \A i \in 1..52 :
             /\ Len(rgb_float[i]) = 52
             /\ \A j \in 1..52 :
                  /\ \A c \in 1..3 : InByte(rgb_float[i][j][c])
                  /\ rgb_float[i][j][2] = I(5 * (j - 1))
                  /\ rgb_float[i][j][3] = I(5 * (i - 1))
                  /\ rgb_float[i][j][1]
                       = (IF RLt(RedOnPlane(5 * (j - 1), 5 * (i - 1)), I(0)) THEN I(0)
                          ELSE IF RLt(I(255), RedOnPlane(5 * (j - 1), 5 * (i - 1))) THEN I(255)
                          ELSE RedOnPlane(5 * (j - 1), 5 * (i - 1)))

\* a field with a cell whose red value is kept and a cell whose red value,
\* below 0 on the plane, is clipped
C10_Witness ==
    /\ rgb_float # None
    /\ normal[1] # Zero
    /\ \E i, j \in 1..52 : rgb_float[i][j][1] = RedOnPlane(5 * (j - 1), 5 * (i - 1))
    /\ \E i, j \in 1..52 : RLt(RedOnPlane(5 * (j - 1), 5 * (i - 1)), I(0))

(***************************************************************************)
(* api.py: get_template calls query_mediawiki once for every batch of      *)
(* page ids; query_mediawiki is a generator that requests documents until  *)
(* one says batchcomplete.  A document is what resp.json() returns:        *)
(* pages is doc['query']['pages'], batchcomplete is                        *)
(* doc.get('batchcomplete'), continue is doc.get('continue'), "None" when  *)
(* the key is absent.  A page is named by the batch, the chunk and the     *)
(* position it arrived at.                                                 *)
(***************************************************************************)
\* the picker is not running
PickerIdle ==
    /\ pc = "idle" /\ lp_reduction = FALSE /\ colour_names = <<>> /\ colours = <<>>
    /\ normal = None /\ rhs = None /\ rgb_float = None /\ proj_plane = None
    /\ reprojected = None /\ corner_idx = None /\ projection = None /\ projected = None
    /\ antiprojection = None /\ missing_corners = None /\ projected_with_corners = None
    /\ corner_rgb = None /\ err = NoError /\ calls = <<>>
    /\ colour_strs = None /\ proj_strs = None /\ all_strs = None

\* how many batches get_template may have to query
MaxBatches == 2

\* how many requests one call of query_mediawiki may send
MaxChunks == 3

\* how many pages a document may hold
MaxPages == 2

\* the values of a document's 'continue'
Tokens == {"t1", "t2"}

Documents(i, chunk) ==
    [pages         : {[j \in 1..k |-> <<i, chunk, j>>] : k \in 0..MaxPages},
     batchcomplete : BOOLEAN,
     continue      : Tokens \cup {"None"}]

\* a faulty next_continue: a document without 'continue' leaves the old one
next_continue_kept(doc, prev) == IF doc.continue = "None" THEN prev ELSE doc.continue

\* prev_continue = doc.get('continue')
next_continue(doc, prev) == doc.continue

InitApi ==
    /\ wiki_pc = "get_template"
    /\ n_batches \in 1..MaxBatches
    /\ batch_i = 0
    /\ prev_continue = "{}"
    /\ sent = <<>> /\ docs = <<>> /\ remaining = <<>> /\ yielded = <<>>
    /\ wiki_err = "None"
    /\ PickerIdle /\ CacheIdle

\* get_template's loop: the next batch is handed to a new call of
\* query_mediawiki, which starts with prev_continue = {}
GetTemplate ==
    /\ wiki_pc = "get_template"
    /\ IF batch_i < n_batches
       THEN /\ batch_i' = batch_i + 1
            /\ prev_continue' = "{}"
            /\ sent' = <<>> /\ docs' = <<>> /\ remaining' = <<>> /\ yielded' = <<>>
            /\ wiki_pc' = "session_get"
       ELSE /\ wiki_pc' = "exhausted"
            /\ UNCHANGED <<batch_i, prev_continue, sent, docs, remaining, yielded>>
    /\ UNCHANGED <<n_batches, wiki_err, pickerVars, cacheVars>>

\* session.get(params=query | prev_continue), raise_for_status, resp.json():
\* dict | None is a TypeError, raised before anything is sent
SessionGet ==
    /\ wiki_pc = "session_get"
    /\ IF prev_continue = "None"
       THEN /\ wiki_err' = "TypeError"
            /\ wiki_pc' = "raised"
            /\ UNCHANGED <<sent, docs, remaining>>
       ELSE /\ Len(sent) < MaxChunks
            /\ sent' = Append(sent, [pageids |-> batch_i, continue |-> prev_continue])
            /\ \/ /\ wiki_err' = "HTTPError"
                  /\ wiki_pc' = "raised"
                  /\ UNCHANGED <<docs, remaining>>
               \/ \E doc \in Documents(batch_i, Len(sent) + 1) :
                      /\ docs' = Append(docs, doc)
                      /\ remaining' = doc.pages
                      /\ wiki_pc' = "yield_from"
                      /\ UNCHANGED wiki_err
    /\ UNCHANGED <<n_batches, batch_i, prev_continue, yielded, pickerVars, cacheVars>>

\* yield from pages: one page goes to the consumer
YieldFrom ==
    /\ wiki_pc = "yield_from" /\ remaining # <<>>
    /\ yielded' = Append(yielded, Head(remaining))
    /\ remaining' = Tail(remaining)
    /\ UNCHANGED <<wiki_pc, n_batches, batch_i, prev_continue, sent, docs, wiki_err,
                   pickerVars, cacheVars>>

\* if doc.get('batchcomplete'): return; prev_continue = doc.get('continue')
BatchComplete ==
    /\ wiki_pc = "yield_from" /\ remaining = <<>>
    /\ IF docs[Len(docs)].batchcomplete
       THEN wiki_pc' = "get_template" /\ UNCHANGED prev_continue
       ELSE /\ prev_continue' = next_continue(docs[Len(docs)], prev_continue)
            /\ wiki_pc' = "session_get"
    /\ UNCHANGED <<n_batches, batch_i, sent, docs, remaining, yielded, wiki_err,
                   pickerVars, cacheVars>>

NextApi == GetTemplate \/ SessionGet \/ YieldFrom \/ BatchComplete

SpecApi == InitApi /\ [][NextApi]_vars

\* the consumer of the generator, fetch_all's for loop, takes every page:
\* each step of the generator that can be taken is taken
SpecApiFair == SpecApi /\ WF_vars(NextApi)

(***************************************************************************)
(* data.py: connect_or_download.  What is at cache_path is "absent", or a  *)
(* database file: "empty" as sqlite3.connect creates it, "schema" once     *)
(* create virtual table has run (sqlite3 opens no transaction for it, so   *)
(* it is committed at once), "complete" once the rows are committed.       *)
(***************************************************************************)
\* how many times connect_or_download may be called
MaxCalls == 4

\* the exceptions of get_frame: those of api.py and of the frame's cleaning
DownloadErrors == {"HTTPError", "TypeError", "KeyError"}

\* subclasses of sqlite3.Error
SqliteErrors == {"sqlite3.OperationalError", "sqlite3.IntegrityError"}

\* exceptions that are no sqlite3.Error
OtherErrors == {"ValueError", "KeyboardInterrupt"}

InitCache ==
    /\ cache_pc = "exists"
    /\ cache_file \in {"absent", "complete"}
    /\ entry_file = cache_file
    /\ downloaded = FALSE /\ conn = "None" /\ cache_exc = "None" /\ cache_err = "None"
    /\ n_calls = 1
    /\ PickerIdle /\ WikiIdle

\* if cache_path.exists()
Exists ==
    /\ cache_pc = "exists"
    /\ cache_pc' = IF cache_file # "absent" THEN "connect_ro" ELSE "get_frame"
    /\ UNCHANGED <<cache_file, entry_file, downloaded, conn, cache_exc, cache_err, n_calls,
                   pickerVars, wikiVars>>

\* df = get_frame(), outside the try block
GetFrame ==
    /\ cache_pc = "get_frame"
    /\ downloaded' = TRUE
    /\ \E exc \in {"None"} \cup DownloadErrors :
           IF exc = "None" THEN cache_pc' = "connect" /\ UNCHANGED cache_err
           ELSE cache_pc' = "raised" /\ cache_err' = exc
    /\ UNCHANGED <<cache_file, entry_file, conn, cache_exc, n_calls, pickerVars, wikiVars>>

\* with sqlite3.connect(cache_path) as conn: the file is created
Connect ==
    /\ cache_pc = "connect"
    /\ \/ cache_file' = "empty" /\ cache_pc' = "make_table" /\ UNCHANGED cache_exc
       \/ /\ cache_exc' = "sqlite3.OperationalError"
          /\ cache_pc' = "except"
          /\ UNCHANGED cache_file
    /\ UNCHANGED <<entry_file, downloaded, conn, cache_err, n_calls, pickerVars, wikiVars>>

\* make_table(conn, df)
MakeTable ==
    /\ cache_pc = "make_table"
    /\ \E exc \in {"None"} \cup SqliteErrors \cup OtherErrors :
           IF exc = "None"
           THEN cache_file' = "schema" /\ cache_pc' = "to_sql" /\ UNCHANGED cache_exc
           ELSE cache_exc' = exc /\ cache_pc' = "except" /\ UNCHANGED cache_file
    /\ UNCHANGED <<entry_file, downloaded, conn, cache_err, n_calls, pickerVars, wikiVars>>

\* df.to_sql(...) and the end of the with block: the rows are committed, or
\* rolled back when an exception leaves the block
ToSql ==
    /\ cache_pc = "to_sql"
    /\ \E exc \in {"None"} \cup SqliteErrors \cup OtherErrors :
           IF exc = "None"
           THEN cache_file' = "complete" /\ cache_pc' = "connect_ro" /\ UNCHANGED cache_exc
           ELSE cache_exc' = exc /\ cache_pc' = "except" /\ UNCHANGED cache_file
    /\ UNCHANGED <<entry_file, downloaded, conn, cache_err, n_calls, pickerVars, wikiVars>>

\* a faulty handles: every exception is handled
handles_all(exc) == TRUE

\* except sqlite3.Error
handles(exc) == exc \in SqliteErrors

\* the handler unlinks the file and raises again; any other exception just
\* propagates
Except ==
    /\ cache_pc = "except"
    /\ cache_file' = IF handles(cache_exc) THEN "absent" ELSE cache_file
    /\ cache_err' = cache_exc
    /\ cache_pc' = "raised"
    /\ UNCHANGED <<entry_file, downloaded, conn, cache_exc, n_calls, pickerVars, wikiVars>>

\* return sqlite3.connect(f'file:{cache_path}?mode=ro', uri=True, ...)
ConnectRo ==
    /\ cache_pc = "connect_ro"
    /\ conn' = "mode=ro"
    /\ cache_pc' = "returned"
    /\ UNCHANGED <<cache_file, entry_file, downloaded, cache_exc, cache_err, n_calls,
                   pickerVars, wikiVars>>

\* connect_or_download is called again
LaterCall ==
    /\ cache_pc \in {"returned", "raised"}
    /\ n_calls < MaxCalls
    /\ n_calls' = n_calls + 1
    /\ cache_pc' = "exists"
    /\ entry_file' = cache_file
    /\ downloaded' = FALSE /\ conn' = "None" /\ cache_exc' = "None" /\ cache_err' = "None"
    /\ UNCHANGED <<cache_file, pickerVars, wikiVars>>

NextCache ==
    \/ Exists \/ GetFrame \/ Connect \/ MakeTable \/ ToSql \/ Except \/ ConnectRo
    \/ LaterCall

SpecCache == InitCache /\ [][NextCache]_vars

(***************************************************************************)
(* C11                                                                     *)
(***************************************************************************)
HexChars == {hex_digit[k] : k \in 1..16}

HexValue(ch) == CHOOSE k \in 0..15 : hex_digit[k + 1] = ch

\* '#' and six lowercase hexadecimal digits
WellFormed(s) == Len(s) = 7 /\ s[1] = "#" /\ \A k \in 2..7 : s[k] \in HexChars

\* the number the two digits of channel c (1 red, 2 green, 3 blue) stand for
Channel(s, c) == 16 * HexValue(s[2 * c]) + HexValue(s[2 * c + 1])

\* a finite or infinite float clipped to [0,255], without its fraction
ClipByte(q) ==
    IF RLt(q, I(0)) THEN 0 ELSE IF RLt(I(255), q) THEN 255 ELSE q[1] \div q[2]

\* the float colour the antiprojection gives the synthetic corner j
CornerFloat(j, c) == Dot(ToFloat(missing_corners[j]) \o <<One>>, Column(antiprojection, c))

OriginalStrings ==
    colour_strs # None =>
        /\ Len(colour_strs) = Len(colours)
        /\ \A i \in 1..Len(colours) :
               /\ WellFormed(colour_strs[i])
               /\ \A c \in 1..3 : /\ colours[i][c] \in 0..255
                                   /\ Channel(colour_strs[i], c) = colours[i][c]

ProjectedStrings ==
    proj_strs # None =>
        /\ Len(proj_strs) = Len(proj_plane)
        /\ \A i \in 1..Len(proj_plane) :
               /\ WellFormed(proj_strs[i])
               /\ \A c \in 1..3 :
                      ~IsNaN(proj_plane[i][c]) =>
                          Channel(proj_strs[i], c) = ClipByte(proj_plane[i][c])

CornerStrings ==
    all_strs # None =>
        /\ Len(all_strs) = Len(colours) + Len(missing_corners)
        /\ \A i \in 1..Len(colours) : all_strs[i] = colour_strs[i]
        /\ \A j \in 1..Len(missing_corners) :
               /\ WellFormed(all_strs[Len(colours) + j])
               /\ \A c \in 1..3 :
                      Channel(all_strs[Len(colours) + j], c) = ClipByte(CornerFloat(j, c))

\* C11: every colour string, of an original colour, of a colour projected on
\* the plane or of a synthetic corner, is '#' and six lowercase hexadecimal
\* digits, two for each of red, green and blue in this order, that give the
\* channel's value clipped to [0,255]
C11_HexStrings == OriginalStrings /\ ProjectedStrings /\ CornerStrings

\* the reduction path is over: a synthetic corner's channel was clipped, and
\* an original colour's channel needed its leading zero
C11_Witness ==
    /\ pc = "done" /\ all_strs # None
    /\ \E j \in 1..Len(missing_corners) : \E c \in 1..3 :
           RLt(CornerFloat(j, c), I(0)) \/ RLt(I(255), CornerFloat(j, c))
    /\ \E i \in 1..Len(colours) : \E c \in 1..3 : colours[i][c] \in 1..15
(***************************************************************************)
(* C12                                                                     *)
(***************************************************************************)
\* the cost vector fit_project_linprog builds from the state's table
StateCost == lp_cost(Len(colours), corner_targets, corner_idx)

\* get_corner_idx has returned
IndexReturned == corner_idx # None /\ err = NoError /\ calls # <<"demo">>

Anchors == {corner_idx[q] : q \in 1..4}

\* the cost the claim gives a variable whose target coordinate is t
CostOfTarget(t) == IF t = 0 THEN 1 ELSE -1

\* C12: the cost is zero on the 8 matrix entries and on the u and v of every
\* sample that is no anchor; the u of the anchor corner_idx[q] costs +1 when
\* the u of the q-th corner target is 0 and -1 when it is 1, and likewise its v
C12_CostVector ==
    IndexReturned =>
        LET n == Len(colours) IN
        /\ Len(StateCost) = 2 * 4 + 2 * n
        /\ \A j \in 1..(2 * 4) : StateCost[j] = 0
        /\ \A i \in (0..(n - 1)) \ Anchors :
               StateCost[2 * 4 + i + 1] = 0 /\ StateCost[2 * 4 + n + i + 1] = 0
        /\ \A q \in 1..4 :
               /\ StateCost[2 * 4 + corner_idx[q] + 1] = CostOfTarget(corner_targets[q][1])
               /\ StateCost[2 * 4 + n + corner_idx[q] + 1] =
                      CostOfTarget(corner_targets[q][2])

\* fit_project_linprog has run on five colours of which the first is no anchor
C12_Witness ==
    /\ IndexReturned /\ pc = "get_antiprojection"
    /\ Len(colours) = 5 /\ 0 \notin Anchors
    /\ corner_idx[1] > corner_idx[4]
(***************************************************************************)
(* C13                                                                     *)
(***************************************************************************)
\* fit_project_linprog has returned
Fitted == projection # None /\ projected # None

\* [r_i, g_i, b_i, 1] . projection, coordinate c (1 is u, 2 is v)
Applied(i, c) == Dot(ToFloat(colours[i]) \o <<One>>, Column(projection, c))

\* C13: the returned coordinates of every sample, in the table's order, are
\* the returned projection applied to the sample: u is column 0 of the matrix
\* and v is column 1
C13_ProjectedIsProjection ==
    Fitted =>
        /\ Len(projected) = Len(colours) /\ Len(projection) = 4
        /\ \A i \in 1..Len(colours) : \A c \in 1..2 : REq(projected[i][c], Applied(i, c))

\* a fit of five colours, of which one is mapped inside the square, with u
\* and v of some sample different
C13_Witness ==
    /\ Fitted /\ Len(colours) = 5
    /\ \E i \in 1..5 : ~REq(projected[i][1], projected[i][2])
    /\ \E i \in 1..5 : \E c \in 1..2 :
           RLt(Zero, projected[i][c]) /\ RLt(projected[i][c], One)
(***************************************************************************)
(* C14                                                                     *)
(***************************************************************************)
RECURSIVE Concat(_)
Concat(ss) == IF ss = <<>> THEN <<>> ELSE Head(ss) \o Concat(Tail(ss))

\* the pages of the documents received, in the order of arrival
Arrived == Concat([k \in 1..Len(docs) |-> docs[k].pages])

\* every page of every document but the last has been yielded, and of the
\* last one every page once the generator has gone past its yield from
YieldedInOrder ==
    /\ Len(yielded) <= Len(Arrived)
    /\ yielded = SubSeq(Arrived, 1, Len(yielded))
    /\ yielded \o remaining = Arrived
    /\ wiki_pc \in {"session_get", "get_template", "exhausted"} => yielded = Arrived

\* the first request carries no token, every later one the token of the
\* document before it
TokensCarried ==
    /\ Len(sent) \in {Len(docs), Len(docs) + 1}
    /\ \A k \in 1..Len(sent) :
           /\ sent[k].pageids = batch_i
           /\ sent[k].continue = IF k = 1 THEN "{}" ELSE docs[k - 1].continue
           /\ sent[k].continue # "None"

\* a document with batchcomplete, or with neither batchcomplete nor a
\* token, is the last one: no request follows it
LastDocument(k) ==
    docs[k].batchcomplete \/ docs[k].continue = "None"

NoRequestAfterLast == \A k \in 1..Len(docs) : LastDocument(k) => Len(sent) = k

\* the last document has neither batchcomplete nor a token, and its pages
\* have been yielded
Neither ==
    /\ docs # <<>> /\ wiki_pc = "session_get" /\ Len(sent) = Len(docs)
    /\ ~docs[Len(docs)].batchcomplete /\ docs[Len(docs)].continue = "None"

\* C14: query_mediawiki yields every page of every document in the order of
\* arrival; every request after the first carries the 'continue' of the
\* document just before it; no request follows the first document with
\* batchcomplete; a document with neither batchcomplete nor 'continue' is
\* followed by no request, stale token or not, and ends the generator (with
\* a TypeError), so the loop goes on no longer
C14_ContinuationProtocol ==
    /\ [](YieldedInOrder /\ TokensCarried /\ NoRequestAfterLast)
    /\ (Neither ~> (wiki_pc = "raised" /\ wiki_err = "TypeError"))

\* after a document with a token, a document of two pages with neither
\* batchcomplete nor a token has ended the generator
C14_Witness ==
    /\ wiki_pc = "raised" /\ wiki_err = "TypeError"
    /\ Len(docs) = 2 /\ Len(sent) = 2
    /\ docs[1].continue \in Tokens /\ ~docs[1].batchcomplete
    /\ Len(docs[2].pages) = 2 /\ Len(yielded) > 2
(***************************************************************************)
(* C15                                                                     *)
(***************************************************************************)
\* an exception has left a call that found no cache
DownloadFailed == cache_pc = "raised" /\ entry_file = "absent"

\* C15 as stated: when an exception leaves a call that found no cache,
\* whatever failed, no file is at cache_path; a call that returns has opened
\* a complete database; and a call that found a cache has downloaded
\* nothing and has opened it read-only
C15_NoIncompleteCache ==
    /\ DownloadFailed => cache_file = "absent"
    /\ cache_pc = "returned" => cache_file = "complete"
    /\ (cache_pc = "returned" /\ entry_file # "absent") =>
           ~downloaded /\ conn = "mode=ro"

\* the row insertion of the first call has failed with an exception that is
\* no sqlite3.Error, and the second call has opened what it left, a
\* database with no rows, without a download
C15_Witness ==
    /\ n_calls = 2 /\ cache_pc = "returned"
    /\ entry_file = "schema" /\ cache_file = "schema"
    /\ ~downloaded /\ conn = "mode=ro"
====
